---- MODULE Spec2Model ----
(***************************************************************************)
(* Model of teuthology/provision/maas.py: the MAAS machine-lifecycle       *)
(* controller (class MAAS) driving a remote MAAS service over REST.        *)
(*                                                                         *)
(* Python strings are modelled as sequences of one-character strings, so   *)
(* that str.lower(), str.split() and f-string composition are computed.    *)
(* The remote service is the environment: every HTTP exchange is one step  *)
(* whose response is chosen nondeterministically.                          *)
(***************************************************************************)
EXTENDS Integers, Sequences, FiniteSets, TLC

(* ------------------------------ bounds -------------------------------- *)
\* the configured "timeout" values Init enumerates are 5 * i seconds, i up to this
MaxTimeoutSteps == 3
\* number of top-level operations one controller instance is driven through
MaxRuns == 2
\* longest boot-resource list the service answers with
MaxImages == 2
\* longest machine list the service answers with
MaxHosts == 2

(* ------------------------- program constants -------------------------- *)
\* safe_while(sleep=10, ...)
SleepInterval == 10
\* config.maas.get("timeout", 900)
DefaultTimeout == 900

(* ------------------------------ strings ------------------------------- *)
\* Python None, kept apart from every character sequence
None == <<"None">>
\* Python True and False as they appear in a decoded JSON field
B_True == <<"True">>
B_False == <<"False">>

S_Ready == <<"R","e","a","d","y">>
S_READY == <<"R","E","A","D","Y">>
S_ready == <<"r","e","a","d","y">>
S_Deploying == <<"D","e","p","l","o","y","i","n","g">>
S_deploying == <<"d","e","p","l","o","y","i","n","g">>
S_Deployed == <<"D","e","p","l","o","y","e","d">>
S_DEPLOYED == <<"D","E","P","L","O","Y","E","D">>
S_deployed == <<"d","e","p","l","o","y","e","d">>
S_DiskErasing == <<"D","i","s","k"," ","e","r","a","s","i","n","g">>
S_diskerasing == <<"d","i","s","k"," ","e","r","a","s","i","n","g">>
S_Failed == <<"F","a","i","l","e","d">>
S_Synced == <<"S","y","n","c","e","d">>
S_synced == <<"s","y","n","c","e","d">>
S_Uploaded == <<"U","p","l","o","a","d","e","d">>
S_ubuntu == <<"u","b","u","n","t","u">>
S_Ubuntu == <<"U","b","u","n","t","u">>
S_noble == <<"n","o","b","l","e">>
S_jammy == <<"j","a","m","m","y">>
S_slash == <<"/">>

UpperChars == <<"A","B","C","D","E","F","G","H","I","J","K","L","M",
                "N","O","P","Q","R","S","T","U","V","W","X","Y","Z">>
LowerChars == <<"a","b","c","d","e","f","g","h","i","j","k","l","m",
                "n","o","p","q","r","s","t","u","v","w","x","y","z">>

\* str.lower() on one character
LowerChar(c) ==
    IF \E i \in DOMAIN UpperChars : UpperChars[i] = c
    THEN LowerChars[CHOOSE i \in DOMAIN UpperChars : UpperChars[i] = c]
    ELSE c

\* str.lower()
Lower(s) == [i \in DOMAIN s |-> LowerChar(s[i])]

\* str.split(sep) for a one-character separator
RECURSIVE SplitAcc(_, _, _, _)
SplitAcc(s, sep, cur, acc) ==
    IF s = <<>> THEN Append(acc, cur)
    ELSE IF Head(s) = sep THEN SplitAcc(Tail(s), sep, <<>>, Append(acc, cur))
    ELSE SplitAcc(Tail(s), sep, Append(cur, Head(s)), acc)

Split(s, sep) == SplitAcc(s, sep, <<>>, <<>>)

\* Python truthiness of a config value / string (None and "" are falsy)
Truthy(v) == v # None /\ v # <<>>

(* ------------------------ results of a call --------------------------- *)
NoValue == <<>>
NoError == [type |-> "None", msg |-> "", args |-> <<>>]
Error(type, msg, args) == [type |-> type, msg |-> msg, args |-> args]
Raise(e) == [raised |-> TRUE, exc |-> e, value |-> NoValue]
Return(v) == [raised |-> FALSE, exc |-> NoError, value |-> v]

\* resp.raise_for_status() of do_request(verify=True), for the request to url
HTTPError(url) == Error("HTTPError", url, <<>>)

(* --------------------------- configuration ---------------------------- *)
K_endpoint == "endpoint"
K_api_key == "api_key"
K_machine_types == "machine_types"
K_timeout == "timeout"

\* dict.get(key, default) on the "maas" section of the configuration,
\* a function from the keys that are present to their values
Get(d, key, default) == IF key \in DOMAIN d THEN d[key] ELSE default

\* enabled(): the list of required settings that are unset
Unset(maas_conf) ==
    SelectSeq(<<K_endpoint, K_api_key, K_machine_types>>,
              LAMBDA param : ~Truthy(Get(maas_conf, param, None)))

\* enabled(): `api_key.split(":") < 3` compares a list with an int, which
\* raises TypeError whenever it is evaluated
enabled(maas_conf) ==
    IF Unset(maas_conf) # <<>> /\ Truthy(Get(maas_conf, K_api_key, None))
    THEN Raise(Error("TypeError", "'<' not supported between 'list' and 'int'", <<>>))
    ELSE Return(TRUE)

\* MAAS._session(): key, token, secret = config.maas["api_key"].split(":")
_session(maas_conf) ==
    IF K_api_key \notin DOMAIN maas_conf
    THEN Raise(Error("KeyError", "api_key", <<>>))
    ELSE IF Len(Split(maas_conf[K_api_key], ":")) # 3
    THEN Raise(Error("ValueError", "unpack", <<>>))
    ELSE Return(Split(maas_conf[K_api_key], ":"))

\* get_types(): [] when enabled() is false, else the non-empty parts of
\* "machine_types" split at ","
get_types(maas_conf) ==
    IF enabled(maas_conf).raised THEN enabled(maas_conf)
    ELSE IF ~enabled(maas_conf).value THEN Return(<<>>)
    ELSE Return(SelectSeq(Split(Get(maas_conf, K_machine_types, <<>>), ","),
                          LAMBDA type_ : type_ # <<>>))

\* the timeout of _wait_for_status() with the configured value ignored
Timeout_default(maas_conf) == DefaultTimeout

\* int(config.maas.get("timeout", 900))
Timeout(maas_conf) == Get(maas_conf, K_timeout, DefaultTimeout)

(* ---------------------- answers of the service ------------------------ *)
\* a response of do_request: resp.ok and the decoded resp.json(); a JSON
\* object is a one-element sequence, an empty answer the empty sequence
HttpFailure == [ok |-> FALSE, json |-> <<>>]
Ok(json) == [ok |-> TRUE, json |-> json]

\* MAAS.do_request(verify=True): config.maas["endpoint"] + url_suffix, the
\* request itself, then resp.raise_for_status()
do_request(maas_conf, url, r) ==
    IF K_endpoint \notin DOMAIN maas_conf
    THEN Raise(Error("KeyError", "endpoint", <<>>))
    ELSE IF ~r.ok THEN Raise(HTTPError(url))
    ELSE Return(r.json)

(* ------------------- the controller's pure decisions ------------------ *)
\* get_host_data() without its check for more than one match
get_host_data_first(resp, shortname) ==
    IF Len(resp) = 0
    THEN Raise(Error("RuntimeError", "Host %s not found!", <<shortname>>))
    ELSE Return(resp[1])

\* MAAS.get_host_data() on the decoded machine list
get_host_data(resp, shortname) ==
    IF Len(resp) = 0
    THEN Raise(Error("RuntimeError", "Host %s not found!", <<shortname>>))
    ELSE IF Len(resp) > 1
    THEN Raise(Error("RuntimeError", "More than one host found for %s", <<shortname>>))
    ELSE Return(resp[1])

\* the image name get_image_data() looks for
ImageName(os_type) == Lower(os_type) \o S_slash \o S_noble

\* MAAS.get_image_data() on the decoded boot-resource list
get_image_data(resp, os_type) ==
    IF Len(resp) = 0
    THEN Raise(Error("RuntimeError", "MaaS has no images available.", <<>>))
    ELSE IF \E i \in DOMAIN resp : resp[i].name = ImageName(os_type)
    THEN Return(resp[CHOOSE i \in DOMAIN resp :
                        /\ resp[i].name = ImageName(os_type)
                        /\ \A j \in 1..(i - 1) : resp[j].name # ImageName(os_type)])
    ELSE Raise(Error("RuntimeError", "MaaS has no %s image.", <<ImageName(os_type)>>))

\* the synced test of deploy_host() with its comparison inverted
IsSynced_inverted(image_data) == Lower(image_data.type) # S_synced

\* deploy_host(): image_data.get("type").lower() != "synced"
IsSynced(image_data) == Lower(image_data.type) = S_synced

\* MAAS.deploy_host(), up to the request: resolve the image, require it synced
deploy_host_image(resp, os_type) ==
    IF get_image_data(resp, os_type).raised
    THEN get_image_data(resp, os_type)
    ELSE IF ~IsSynced(get_image_data(resp, os_type).value)
    THEN Raise(Error("RuntimeError", "MaaS image %s is not synced, current status: %s",
                     << get_image_data(resp, os_type).value.name,
                        get_image_data(resp, os_type).value.type >>))
    ELSE get_image_data(resp, os_type)

\* MAAS.deploy_host(): the body of the op-deploy request; no "user-data"
\* template is configured, so _get_user_data() returns None
deploy_host_data(image_data) ==
    [distro_series |-> image_data.name, user_data |-> None]

\* MAAS.deploy_host(), after the request
deploy_host_resp(resp, shortname, system_id) ==
    IF resp = <<>>
    THEN Raise(Error("RuntimeError", "Failed to deploy host %s, system_id: %s",
                     <<shortname, system_id>>))
    ELSE IF ~(resp[1].status_name = S_Deploying)
    THEN Raise(Error("RuntimeError", "Host %s deployment failed, status: %s",
                     <<shortname, resp[1].status_name>>))
    ELSE Return(NoValue)

\* MAAS.lock_host(), after the request
lock_host(resp, shortname, system_id) ==
    IF resp = <<>>
    THEN Raise(Error("RuntimeError", "Failed to lock host %s, system_id: %s",
                     <<shortname, system_id>>))
    ELSE IF ~(resp[1].locked = B_True)
    THEN Raise(Error("RuntimeError", "Host %s locking failed, status: %s",
                     <<shortname, resp[1].locked>>))
    ELSE Return(NoValue)

\* MAAS.unlock_host(), after the request
unlock_host(resp, shortname, system_id) ==
    IF resp = <<>>
    THEN Raise(Error("RuntimeError", "Failed to unlock host %s, system_id: %s",
                     <<shortname, system_id>>))
    ELSE IF resp[1].locked = B_True
    THEN Raise(Error("RuntimeError", "Host %s unlocking failed, status: %s",
                     <<shortname, resp[1].locked>>))
    ELSE Return(NoValue)

\* MAAS.release_host(erase): the body of the op-release request
release_host_data(erase) == [erase |-> erase]

\* release_host() without its test of the answer's status
release_host_resp_unchecked(resp, shortname, system_id) ==
    IF resp = <<>>
    THEN Raise(Error("RuntimeError", "Failed to release host %s, system_id: %s",
                     <<shortname, system_id>>))
    ELSE Return(NoValue)

\* MAAS.release_host(), after the request
release_host_resp(resp, shortname, system_id) ==
    IF resp = <<>>
    THEN Raise(Error("RuntimeError", "Failed to release host %s, system_id: %s",
                     <<shortname, system_id>>))
    ELSE IF resp[1].status_name = None
    THEN Raise(Error("AttributeError", "'NoneType' object has no attribute 'lower'", <<>>))
    ELSE IF ~(Lower(resp[1].status_name) = S_diskerasing)
    THEN Raise(Error("RuntimeError", "Host %s releasing failed, status: %s",
                     <<shortname, resp[1].status_name>>))
    ELSE Return(NoValue)

\* MAAS.abort_deploy(), after the request
abort_deploy(resp, shortname, system_id) ==
    IF resp = <<>>
    THEN Raise(Error("RuntimeError", "Failed to abort deploy for host %s, system_id: %s",
                     <<shortname, system_id>>))
    ELSE Return(NoValue)

\* create() without its test of the fetched status
create_ready_unchecked(host_data, shortname) == Return(NoValue)

\* create(): host_data.get("status_name").lower() != "ready"
create_ready(host_data, shortname) ==
    IF Lower(host_data.status_name) # S_ready
    THEN Raise(Error("RuntimeError", "MaaS host %s is not ready, current status: %s",
                     <<shortname, host_data.status_name>>))
    ELSE Return(NoValue)

\* the locked test of release() with its sense inverted
release_locked_inverted(host_data) == host_data.locked # B_True

\* release(): host_data.get("locked")
release_locked(host_data) == host_data.locked = B_True

\* the status comparison of _wait_for_status() without the case folding
StatusMatches_exact(status_name, status) == status_name = status

\* _wait_for_status(): status_name.lower() == status.lower()
StatusMatches(status_name, status) == Lower(status_name) = Lower(status)

\* _wait_for_status(): the error raised after the polling loop ran out
StatusTimeout(status, shortname, system_id) ==
    Error("RuntimeError", "Failed to validate status %s for host %s, system_id: %s",
          <<status, shortname, system_id>>)

\* a safe_while that never gives up
proceed_forever(n, sleep, timeout) == TRUE

\* safe_while(sleep, timeout): proceed() lets poll number n + 1 happen while
\* the n sleeps already taken stay below the timeout
proceed(n, sleep, timeout) == n * sleep < timeout

\* _verify_installed_os(): self.remote.os != wanted_os
_verify_installed_os(remote_os, os_type, os_version, shortname) ==
    IF remote_os # [name |-> os_type, version |-> os_version]
    THEN Raise(Error("RuntimeError", "Expected %s's OS to be %s but found %s",
                     <<shortname, os_type, os_version, remote_os.name, remote_os.version>>))
    ELSE Return(NoValue)

(* ------------------------ the sets inputs come from ------------------- *)
Hostnames == { <<"h","1">> }
SystemIds == { <<"s","1">>, <<"s","2">> }
OsTypes == { S_ubuntu, S_Ubuntu }
OsVersions == { S_noble, S_jammy }
StatusNames == { S_Ready, S_READY, S_Deploying, S_Deployed, S_deployed }
OpStatusNames == { S_Deploying, S_deploying, S_DiskErasing, S_diskerasing, S_Failed, None }
ApiKeys == { <<>>, <<"k",":","t",":","s">>, <<"k",":","t">> }

\* the "maas" section of the configuration, as the set of dicts Init draws from
Dicts(keys, values) == UNION { [ks -> values] : ks \in SUBSET keys }
Merge(a, b) == [k \in DOMAIN a \cup DOMAIN b |-> IF k \in DOMAIN a THEN a[k] ELSE b[k]]
Timeouts == { 5 * i : i \in 2..MaxTimeoutSteps }
ConfigsWith(timeouts) ==
    { Merge(Merge(e, a), Merge(m, t)) :
        e \in Dicts({K_endpoint}, { <<"u">> }),
        a \in Dicts({K_api_key}, ApiKeys),
        m \in Dicts({K_machine_types}, { <<"m">> }),
        t \in timeouts }
\* a "timeout" is configured
Configs == ConfigsWith([{K_timeout} -> Timeouts])
\* "timeout" is configured or left to its default
ConfigsOrDefault == ConfigsWith(Dicts({K_timeout}, Timeouts))

\* sequences over S of length at most n
RECURSIVE SeqsUpTo(_, _)
SeqsUpTo(S, n) ==
    IF n = 0 THEN { <<>> }
    ELSE SeqsUpTo(S, n - 1) \cup
         { Append(q, x) : q \in { q \in SeqsUpTo(S, n - 1) : Len(q) = n - 1 }, x \in S }

\* Machine Records as GET /machines/ lists them
MachineRecords ==
    { r \in [system_id : SystemIds, status_name : StatusNames, locked : {B_True, B_False}] :
        r.locked = B_False \/ r.status_name = S_Ready }
\* the records of a list that has more than one
ExtraRecords ==
    [system_id : SystemIds, status_name : {S_Ready}, locked : {B_False}]
MachineLists ==
    { <<>> } \cup { <<r>> : r \in MachineRecords } \cup
    { q \in SeqsUpTo(ExtraRecords, MaxHosts) : Len(q) > 1 }
MachineResponses == { HttpFailure } \cup { Ok(l) : l \in MachineLists }

\* the record a POST .../op-* answers with; a status_name it leaves out reads None
OpRecords ==
    { r \in [system_id : {<<"s","1">>}, status_name : OpStatusNames,
             locked : {B_True, B_False, None}] :
        r.locked = B_False \/ r.status_name = S_Deploying }
OpResponses == { HttpFailure, Ok(<<>>) } \cup { Ok(<<r>>) : r \in OpRecords }

\* Image Descriptors as GET /boot-resources/ lists them
ImageNames == { S_ubuntu \o S_slash \o S_noble, S_ubuntu \o S_slash \o S_jammy }
Images == [name : ImageNames, type : {S_Synced, S_Uploaded}]
BootResponses == { HttpFailure } \cup { Ok(l) : l \in SeqsUpTo(Images, MaxImages) }

\* what the remote-execution collaborator reports as the installed OS
RemoteOSes == [name : OsTypes, version : OsVersions]

Urls == { "machines", "boot-resources", "op-lock", "op-unlock", "op-deploy",
          "op-release", "op-abort", "remote.os" }
Operations == { "create", "release", "deploy_host", "lock_host", "unlock_host",
                "release_host", "abort_deploy", "get_image_data", "_wait_for_status" }
WaitTargets == { S_Ready, S_deployed }

NoImage == [name |-> None, type |-> None]
NoRequest == [url |-> "", data |-> None, target |-> None]
NoResponse == [url |-> "", ok |-> FALSE, json |-> <<>>]
NoResult == [raised |-> FALSE, exc |-> NoError, value |-> NoValue]
NoCalls == [u \in Urls |-> 0]

(* ------------------------------- state -------------------------------- *)
VARIABLES
    maas_conf,    \* config.maas
    shortname,    \* self.shortname
    os_type,      \* self.os_type
    os_version,   \* self.os_version
    system_id,    \* self.system_id, None until construction stored it
    pc,           \* "new", "failed", "idle", or the method about to do its request
    op,           \* the top-level operation that runs or ran last
    runs,         \* top-level operations started on this instance
    status,       \* the argument of the running _wait_for_status
    polls,        \* Machine Record fetches of the running _wait_for_status
    mismatches,   \* of these, the ones whose status_name did not match status
    waits,        \* the arguments of the _wait_for_status calls of this run
    pending,      \* the exception create()'s handler caught in this run, or NoError
    image_data,   \* deploy_host's local image_data
    req,          \* the last request sent
    resp,         \* the last response received
    calls,        \* requests sent in this run, by endpoint
    result,       \* how the last top-level operation ended
    parked,       \* the fields of a second instance while this one is running
    active        \* which of the two instances is the running one

vars == << maas_conf, shortname, os_type, os_version, system_id, pc, op, runs,
           status, polls, mismatches, waits, pending, image_data, req, resp,
           calls, result, parked, active >>

instance == << maas_conf, shortname, os_type, os_version >>
waitvars == << status, polls, mismatches, waits >>
others == << parked, active >>

\* no second instance exists
NoController == [pc |-> "none"]

Init ==
    /\ maas_conf \in Configs
    /\ shortname \in Hostnames
    /\ os_type \in OsTypes
    /\ os_version \in OsVersions
    /\ system_id = None
    /\ pc = "new"
    /\ op = "none"
    /\ runs = 0
    /\ status = None
    /\ polls = 0
    /\ mismatches = 0
    /\ waits = <<>>
    /\ pending = NoError
    /\ image_data = NoImage
    /\ req = NoRequest
    /\ resp = NoResponse
    /\ calls = NoCalls
    /\ result = NoResult
    /\ parked = NoController
    /\ active = 1

(* ------------------------- shared step pieces ------------------------- *)
\* requests addressed to the machine of the record fetched last
Target_fetched(url, id) ==
    IF url \in {"op-lock", "op-unlock", "op-deploy", "op-release", "op-abort"}
    THEN IF resp.url # "boot-resources" /\ resp.json # <<>>
         THEN resp.json[1].system_id ELSE id
    ELSE None

\* the machine a request is addressed to: f"/machines/{self.system_id}/op-..."
\* names self.system_id, the two list requests name no machine
Target(url, id) ==
    IF url \in {"op-lock", "op-unlock", "op-deploy", "op-release", "op-abort"}
    THEN id ELSE None

\* one exchange with the service: the request goes out, the answer r is in
Exchange(url, data, r) ==
    /\ req' = [url |-> url, data |-> data, target |-> Target(url, system_id)]
    /\ resp' = [url |-> url, ok |-> r.ok, json |-> r.json]
    /\ calls' = [calls EXCEPT ![url] = @ + 1]

\* the top-level operation ends with outcome out
Finish(out) ==
    /\ pc' = "idle"
    /\ result' = out
    /\ image_data' = NoImage
    /\ UNCHANGED pending

\* the running method goes on at position next
Goto(next) ==
    /\ pc' = next
    /\ UNCHANGED << result, pending, image_data >>

\* entry of _wait_for_status(target)
StartWait(target) ==
    /\ pc' = "_wait_for_status"
    /\ status' = target
    /\ polls' = 0
    /\ mismatches' = 0
    /\ waits' = Append(waits, target)

\* create(): `except Exception:` around deploy_host() and _wait_for_status("Deployed")
Handler(e) ==
    /\ pc' = "abort_deploy"
    /\ pending' = e
    /\ image_data' = NoImage
    /\ UNCHANGED result

\* MAAS.__init__ as a function of the answer to its machine lookup
MAAS_init(conf, name, r) ==
    IF enabled(conf).raised THEN enabled(conf)
    ELSE IF ~enabled(conf).value
    THEN Raise(Error("RuntimeError", "MAAS is not configured!", <<>>))
    ELSE IF _session(conf).raised THEN _session(conf)
    ELSE IF do_request(conf, "machines", r).raised THEN do_request(conf, "machines", r)
    ELSE get_host_data(do_request(conf, "machines", r).value, name)

\* MAAS.__init__ gets as far as sending its machine lookup
InitSends(conf) ==
    /\ ~enabled(conf).raised
    /\ enabled(conf).value
    /\ ~_session(conf).raised
    /\ K_endpoint \in DOMAIN conf

(* ------------------------------ actions ------------------------------- *)
\* MAAS(name, os_type, os_version)
Construct ==
    /\ pc = "new"
    /\ \E r \in MachineResponses :
        /\ IF InitSends(maas_conf)
           THEN Exchange("machines", [hostname |-> shortname], r)
           ELSE UNCHANGED << req, resp, calls >>
        /\ op' = "__init__"
        /\ result' = MAAS_init(maas_conf, shortname, r)
        /\ IF MAAS_init(maas_conf, shortname, r).raised
           THEN pc' = "failed" /\ UNCHANGED system_id
           ELSE pc' = "idle" /\ system_id' = MAAS_init(maas_conf, shortname, r).value.system_id
    /\ UNCHANGED << others, instance, runs, waitvars, pending, image_data >>

\* the module-level get_types(), called before any instance is constructed
get_types_step ==
    /\ pc = "new"
    /\ op = "none"
    /\ op' = "get_types"
    /\ result' = get_types(maas_conf)
    /\ UNCHANGED << others, instance, system_id, pc, runs, waitvars, pending, image_data,
                    req, resp, calls >>

\* the caller invokes one method of the constructed instance
Call ==
    /\ pc = "idle"
    /\ runs < MaxRuns
    /\ \E o \in Operations, target \in WaitTargets :
        /\ op' = o
        /\ IF o = "_wait_for_status"
           THEN /\ pc' = "_wait_for_status"
                /\ status' = target
                /\ waits' = <<target>>
           ELSE /\ pc' = o
                /\ status' = None
                /\ waits' = <<>>
    /\ runs' = runs + 1
    /\ polls' = 0
    /\ mismatches' = 0
    /\ pending' = NoError
    /\ image_data' = NoImage
    /\ req' = NoRequest
    /\ resp' = NoResponse
    /\ calls' = NoCalls
    /\ result' = NoResult
    /\ UNCHANGED << others, instance, system_id >>

\* the outcome of get_host_data() for the answer r
HostData(r) ==
    IF do_request(maas_conf, "machines", r).raised THEN do_request(maas_conf, "machines", r)
    ELSE get_host_data(do_request(maas_conf, "machines", r).value, shortname)

\* create(): fetch the Machine Record and require it Ready
create ==
    /\ pc = "create"
    /\ \E r \in MachineResponses :
        /\ Exchange("machines", [hostname |-> shortname], r)
        /\ IF HostData(r).raised THEN Finish(HostData(r))
           ELSE IF create_ready(HostData(r).value, shortname).raised
           THEN Finish(create_ready(HostData(r).value, shortname))
           ELSE Goto("deploy_host")
    /\ UNCHANGED << others, instance, system_id, op, runs, waitvars >>

\* the outcome of deploy_host() up to its request, for the answer r
DeployImage(r) ==
    IF do_request(maas_conf, "boot-resources", r).raised
    THEN do_request(maas_conf, "boot-resources", r)
    ELSE deploy_host_image(do_request(maas_conf, "boot-resources", r).value, os_type)

\* deploy_host(): resolve the image and require it synced
deploy_host ==
    /\ pc = "deploy_host"
    /\ \E r \in BootResponses :
        /\ Exchange("boot-resources", None, r)
        /\ IF DeployImage(r).raised
           THEN IF op = "create" THEN Handler(DeployImage(r).exc)
                ELSE Finish(DeployImage(r))
           ELSE /\ pc' = "op_deploy"
                /\ image_data' = DeployImage(r).value
                /\ UNCHANGED << result, pending >>
    /\ UNCHANGED << others, instance, system_id, op, runs, waitvars >>

\* the outcome of deploy_host(), from its request on for the answer r
DeployOutcome(r) ==
    IF do_request(maas_conf, "op-deploy", r).raised THEN do_request(maas_conf, "op-deploy", r)
    ELSE deploy_host_resp(do_request(maas_conf, "op-deploy", r).value, shortname, system_id)

\* the outcome of abort_deploy() for the answer r
AbortOutcome(r) ==
    IF do_request(maas_conf, "op-abort", r).raised THEN do_request(maas_conf, "op-abort", r)
    ELSE abort_deploy(do_request(maas_conf, "op-abort", r).value, shortname, system_id)

\* the outcome of lock_host() for the answer r
LockOutcome(r) ==
    IF do_request(maas_conf, "op-lock", r).raised THEN do_request(maas_conf, "op-lock", r)
    ELSE lock_host(do_request(maas_conf, "op-lock", r).value, shortname, system_id)

\* the outcome of unlock_host() for the answer r
UnlockOutcome(r) ==
    IF do_request(maas_conf, "op-unlock", r).raised THEN do_request(maas_conf, "op-unlock", r)
    ELSE unlock_host(do_request(maas_conf, "op-unlock", r).value, shortname, system_id)

\* the outcome of release_host() for the answer r
ReleaseOutcome(r) ==
    IF do_request(maas_conf, "op-release", r).raised THEN do_request(maas_conf, "op-release", r)
    ELSE release_host_resp(do_request(maas_conf, "op-release", r).value, shortname, system_id)

\* deploy_host(): issue op-deploy and check the answer
op_deploy ==
    /\ pc = "op_deploy"
    /\ \E r \in OpResponses :
        /\ Exchange("op-deploy", deploy_host_data(image_data), r)
        /\ IF DeployOutcome(r).raised
           THEN /\ IF op = "create" THEN Handler(DeployOutcome(r).exc)
                   ELSE Finish(DeployOutcome(r))
                /\ UNCHANGED waitvars
           ELSE IF op = "create"
                THEN /\ StartWait(S_Deployed)
                     /\ image_data' = NoImage
                     /\ UNCHANGED << result, pending >>
                ELSE /\ Finish(DeployOutcome(r))
                     /\ UNCHANGED waitvars
    /\ UNCHANGED << others, instance, system_id, op, runs >>

\* _wait_for_status() returns normally: the caller goes on
WaitReturn ==
    IF op = "create" /\ pending = NoError THEN Goto("lock_host")
    ELSE IF op = "create" THEN Finish(Raise(pending))
    ELSE Finish(Return(NoValue))

\* a create() that answers a failed wait for "Deployed" by deploying again
WaitRaise_redeploy(e) ==
    IF op = "create" /\ pending = NoError
    THEN /\ pc' = "op_deploy"
         /\ pending' = e
         /\ image_data' = NoImage
         /\ UNCHANGED result
    ELSE Finish(Raise(e))

\* _wait_for_status() raises e
WaitRaise(e) ==
    IF op = "create" /\ pending = NoError THEN Handler(e)
    ELSE Finish(Raise(e))

\* _wait_for_status(): one turn of the polling loop
wait_poll ==
    /\ pc = "_wait_for_status"
    /\ proceed(polls, SleepInterval, Timeout(maas_conf))
    /\ \E r \in MachineResponses :
        /\ Exchange("machines", [hostname |-> shortname], r)
        /\ polls' = polls + 1
        /\ IF HostData(r).raised
           THEN WaitRaise(HostData(r).exc) /\ UNCHANGED mismatches
           ELSE /\ mismatches' = IF Lower(HostData(r).value.status_name) = Lower(status)
                                 THEN mismatches ELSE mismatches + 1
                /\ IF StatusMatches(HostData(r).value.status_name, status)
                   THEN WaitReturn
                   ELSE Goto("_wait_for_status")
    /\ UNCHANGED << others, instance, system_id, op, runs, status, waits >>

\* _wait_for_status(): the loop ran out, the error after it is raised
wait_timeout ==
    /\ pc = "_wait_for_status"
    /\ ~proceed(polls, SleepInterval, Timeout(maas_conf))
    /\ WaitRaise(StatusTimeout(status, shortname, system_id))
    /\ UNCHANGED << others, instance, system_id, op, runs, waitvars, req, resp, calls >>

\* abort_deploy(); inside create() it is the first step of the handler
abort_deploy_step ==
    /\ pc = "abort_deploy"
    /\ \E r \in OpResponses :
        /\ Exchange("op-abort", None, r)
        /\ IF AbortOutcome(r).raised
           THEN Finish(AbortOutcome(r)) /\ UNCHANGED waitvars
           ELSE IF op = "create"
                THEN StartWait(S_Ready) /\ UNCHANGED << result, pending, image_data >>
                ELSE Finish(AbortOutcome(r)) /\ UNCHANGED waitvars
    /\ UNCHANGED << others, instance, system_id, op, runs >>

\* a create() whose handler also covers lock_host()
lock_host_step_rolled_back ==
    /\ pc = "lock_host"
    /\ \E r \in OpResponses :
        /\ Exchange("op-lock", None, r)
        /\ IF LockOutcome(r).raised /\ op = "create"
           THEN Handler(LockOutcome(r).exc)
           ELSE IF LockOutcome(r).raised \/ op # "create"
           THEN Finish(LockOutcome(r))
           ELSE Goto("_verify_installed_os")
    /\ UNCHANGED << others, instance, system_id, op, runs, waitvars >>

\* lock_host()
lock_host_step ==
    /\ pc = "lock_host"
    /\ \E r \in OpResponses :
        /\ Exchange("op-lock", None, r)
        /\ IF LockOutcome(r).raised \/ op # "create"
           THEN Finish(LockOutcome(r))
           ELSE Goto("_verify_installed_os")
    /\ UNCHANGED << others, instance, system_id, op, runs, waitvars >>

\* _verify_installed_os()
verify_installed_os ==
    /\ pc = "_verify_installed_os"
    /\ \E remote_os \in RemoteOSes :
        /\ calls' = [calls EXCEPT !["remote.os"] = @ + 1]
        /\ Finish(_verify_installed_os(remote_os, os_type, os_version, shortname))
    /\ UNCHANGED << others, instance, system_id, op, runs, waitvars, req, resp >>

\* release(): fetch the Machine Record, unlock first if it is locked
release ==
    /\ pc = "release"
    /\ \E r \in MachineResponses :
        /\ Exchange("machines", [hostname |-> shortname], r)
        /\ IF HostData(r).raised THEN Finish(HostData(r))
           ELSE IF release_locked(HostData(r).value) THEN Goto("unlock_host")
           ELSE Goto("release_host")
    /\ UNCHANGED << others, instance, system_id, op, runs, waitvars >>

\* unlock_host()
unlock_host_step ==
    /\ pc = "unlock_host"
    /\ \E r \in OpResponses :
        /\ Exchange("op-unlock", None, r)
        /\ IF UnlockOutcome(r).raised \/ op # "release"
           THEN Finish(UnlockOutcome(r))
           ELSE Goto("release_host")
    /\ UNCHANGED << others, instance, system_id, op, runs, waitvars >>

\* release_host(erase=True)
release_host_step ==
    /\ pc = "release_host"
    /\ \E r \in OpResponses :
        /\ Exchange("op-release", release_host_data(TRUE), r)
        /\ IF ReleaseOutcome(r).raised \/ op # "release"
           THEN Finish(ReleaseOutcome(r)) /\ UNCHANGED waitvars
           ELSE StartWait(S_Ready) /\ UNCHANGED << result, pending, image_data >>
    /\ UNCHANGED << others, instance, system_id, op, runs >>

\* the outcome of get_image_data() for the answer r
ImageData(r) ==
    IF do_request(maas_conf, "boot-resources", r).raised
    THEN do_request(maas_conf, "boot-resources", r)
    ELSE get_image_data(do_request(maas_conf, "boot-resources", r).value, os_type)

\* get_image_data() called on its own
get_image_data_step ==
    /\ pc = "get_image_data"
    /\ \E r \in BootResponses :
        /\ Exchange("boot-resources", None, r)
        /\ Finish(ImageData(r))
    /\ UNCHANGED << others, instance, system_id, op, runs, waitvars >>

Next ==
    \/ Construct
    \/ get_types_step
    \/ Call
    \/ create
    \/ deploy_host
    \/ op_deploy
    \/ wait_poll
    \/ wait_timeout
    \/ abort_deploy_step
    \/ lock_host_step
    \/ verify_installed_os
    \/ release
    \/ unlock_host_step
    \/ release_host_step
    \/ get_image_data_step

Spec == Init /\ [][Next]_vars

(* ------- the same, every call to the service returning in time -------- *)
\* the steps a running method takes by itself once its call has returned
Progress ==
    \/ create
    \/ deploy_host
    \/ op_deploy
    \/ wait_poll
    \/ wait_timeout
    \/ abort_deploy_step
    \/ lock_host_step
    \/ verify_installed_os
    \/ release
    \/ unlock_host_step
    \/ release_host_step
    \/ get_image_data_step

\* one instance whose construction can get as far as its machine lookup
InitFair ==
    /\ Init
    /\ InitSends(maas_conf)
    /\ shortname = <<"h","1">>
    /\ os_type = S_Ubuntu

SpecFair == InitFair /\ [][Next]_vars /\ WF_vars(Progress)

(* ---- _wait_for_status on its own, the default timeout included ------- *)
InitWait ==
    /\ maas_conf \in ConfigsOrDefault
    /\ shortname \in Hostnames
    /\ os_type = S_ubuntu
    /\ os_version = S_noble
    /\ system_id = None
    /\ pc = "new"
    /\ op = "none"
    /\ runs = 0
    /\ status = None
    /\ polls = 0
    /\ mismatches = 0
    /\ waits = <<>>
    /\ pending = NoError
    /\ image_data = NoImage
    /\ req = NoRequest
    /\ resp = NoResponse
    /\ calls = NoCalls
    /\ result = NoResult
    /\ parked = NoController
    /\ active = 1

\* the caller invokes _wait_for_status(target)
CallWait ==
    /\ Call
    /\ op' = "_wait_for_status"

NextWait ==
    \/ Construct
    \/ CallWait
    \/ wait_poll
    \/ wait_timeout

SpecWait == InitWait /\ [][NextWait]_vars

(* ------- two instances for two machines, their steps interleaved ------ *)
\* the fields of the running instance
Fields ==
    [ shortname |-> shortname, os_type |-> os_type, os_version |-> os_version,
      system_id |-> system_id, pc |-> pc, op |-> op, runs |-> runs,
      status |-> status, polls |-> polls, mismatches |-> mismatches,
      waits |-> waits, pending |-> pending, image_data |-> image_data,
      req |-> req, resp |-> resp, calls |-> calls, result |-> result ]

\* an instance before MAAS(name, os_type, os_version) has run
NewController(name, type, version) ==
    [ shortname |-> name, os_type |-> type, os_version |-> version,
      system_id |-> None, pc |-> "new", op |-> "none", runs |-> 0,
      status |-> None, polls |-> 0, mismatches |-> 0,
      waits |-> <<>>, pending |-> NoError, image_data |-> NoImage,
      req |-> NoRequest, resp |-> NoResponse, calls |-> NoCalls, result |-> NoResult ]

InitTwo ==
    /\ maas_conf \in { c \in Configs : InitSends(c) /\ c[K_timeout] = SleepInterval }
    /\ shortname = <<"h","1">>
    /\ os_type = S_ubuntu
    /\ os_version = S_noble
    /\ system_id = None
    /\ pc = "new"
    /\ op = "none"
    /\ runs = 0
    /\ status = None
    /\ polls = 0
    /\ mismatches = 0
    /\ waits = <<>>
    /\ pending = NoError
    /\ image_data = NoImage
    /\ req = NoRequest
    /\ resp = NoResponse
    /\ calls = NoCalls
    /\ result = NoResult
    /\ parked = NewController(<<"h","2">>, S_ubuntu, S_noble)
    /\ active = 1

\* a switch gone wrong: system_id is kept as if it belonged to the class
Switch_shared ==
    /\ parked # NoController
    /\ parked' = Fields
    /\ active' = 3 - active
    /\ shortname' = parked.shortname
    /\ os_type' = parked.os_type
    /\ os_version' = parked.os_version
    /\ system_id' = system_id
    /\ pc' = parked.pc
    /\ op' = parked.op
    /\ runs' = parked.runs
    /\ status' = parked.status
    /\ polls' = parked.polls
    /\ mismatches' = parked.mismatches
    /\ waits' = parked.waits
    /\ pending' = parked.pending
    /\ image_data' = parked.image_data
    /\ req' = parked.req
    /\ resp' = parked.resp
    /\ calls' = parked.calls
    /\ result' = parked.result
    /\ UNCHANGED maas_conf

\* the scheduler lets the other instance run: every self.* field belongs to
\* one instance, config alone is shared
Switch ==
    /\ parked # NoController
    /\ parked' = Fields
    /\ active' = 3 - active
    /\ shortname' = parked.shortname
    /\ os_type' = parked.os_type
    /\ os_version' = parked.os_version
    /\ system_id' = parked.system_id
    /\ pc' = parked.pc
    /\ op' = parked.op
    /\ runs' = parked.runs
    /\ status' = parked.status
    /\ polls' = parked.polls
    /\ mismatches' = parked.mismatches
    /\ waits' = parked.waits
    /\ pending' = parked.pending
    /\ image_data' = parked.image_data
    /\ req' = parked.req
    /\ resp' = parked.resp
    /\ calls' = parked.calls
    /\ result' = parked.result
    /\ UNCHANGED maas_conf

\* the caller invokes create() or release()
CallTwo ==
    /\ Call
    /\ op' \in {"create", "release"}

\* the setting of the two instances: each is driven through one operation, a
\* wait is given time for one poll, and the service answers each hostname
\* with at most one record, the one of that host's own machine
TwoMachines ==
    /\ runs <= 1
    /\ Len(resp.json) <= 1
    /\ (resp.json # <<>> /\ resp.url = "machines") =>
          /\ resp.json[1].system_id = << "s", shortname[2] >>
          /\ resp.json[1].status_name \in {S_Ready, S_Deploying, S_Deployed}
    /\ (resp.json # <<>> /\ resp.url \notin {"machines", "boot-resources"}) =>
          /\ resp.json[1].locked # None
          /\ resp.json[1].status_name \in {S_Deploying, S_DiskErasing, S_Failed}

NextTwo ==
    \/ Construct /\ TwoMachines'
    \/ CallTwo /\ TwoMachines'
    \/ create /\ TwoMachines'
    \/ deploy_host /\ TwoMachines'
    \/ op_deploy /\ TwoMachines'
    \/ wait_poll /\ TwoMachines'
    \/ wait_timeout /\ TwoMachines'
    \/ abort_deploy_step /\ TwoMachines'
    \/ lock_host_step /\ TwoMachines'
    \/ verify_installed_os /\ TwoMachines'
    \/ release /\ TwoMachines'
    \/ unlock_host_step /\ TwoMachines'
    \/ release_host_step /\ TwoMachines'
    \/ Switch

SpecTwo == InitTwo /\ [][NextTwo]_vars

(* ============================== claims ================================ *)
\* a top-level run of operation o is over
Done(o) == pc = "idle" /\ op = o

\* the step is taken inside the run of operation o
RunOf(o) == op = o /\ runs' = runs

\* in this run of create() the handler ran because _wait_for_status("Deployed")
\* failed: deploy_host() had returned and that wait had been entered
DeployedWaitFailed ==
    /\ op = "create"
    /\ pending # NoError
    /\ Len(waits) >= 1
    /\ waits[1] = S_Deployed

\* C1: whenever create() ends after its wait for "Deployed" failed, the error
\* it raises is the failure of that wait, also when abort_deploy() or the
\* rollback wait for "Ready" fails.
C1_OriginalErrorRaised ==
    (Done("create") /\ DeployedWaitFailed) => (result.raised /\ result.exc = pending)

\* C2: whenever create() ends after its wait for "Deployed" failed, it issued
\* op-abort exactly once, then started exactly one wait for "Ready", and issued
\* no op-lock and no second op-deploy.
C2_RollbackCalls ==
    (Done("create") /\ DeployedWaitFailed) =>
        /\ calls["op-abort"] = 1
        /\ waits = << S_Deployed, S_Ready >>
        /\ calls["op-lock"] = 0
        /\ calls["op-deploy"] = 1

\* the answer in resp is a boot-resource list that get_image_data() resolves
BootListResolves ==
    /\ resp.url = "boot-resources"
    /\ resp.ok
    /\ \E i \in DOMAIN resp.json : resp.json[i].name = ImageName(os_type)

\* the error a run of create() or deploy_host() has met in deploy_host()
DeployError == IF op = "create" THEN pending ELSE result.exc

RequestedName == Lower(os_type) \o S_slash \o os_version

\* C4: get_image_data() returns the entry named lower(os_type) + "/" +
\* os_version and raises when the list is empty or has no such entry.
C4_ImageByRequestedName ==
    (Done("get_image_data") /\ resp.ok) =>
        IF \E i \in DOMAIN resp.json : resp.json[i].name = RequestedName
        THEN ~result.raised /\ result.value.name = RequestedName
        ELSE result.raised

\* the timeout the configuration asks for, 900 seconds when it names none
ConfiguredTimeout == IF K_timeout \in DOMAIN maas_conf THEN maas_conf[K_timeout] ELSE 900

\* ceil(ConfiguredTimeout / 10): the polls a wait may make
PollLimit == (ConfiguredTimeout + 9) \div 10

\* resp is the answer to a Machine Record fetch that lists exactly one record
OneRecord(response) ==
    /\ response.url = "machines"
    /\ response.ok
    /\ Len(response.json) = 1

\* C5: _wait_for_status goes on polling exactly while the fetched status does
\* not match; when poll k + 1 is the first to match case-insensitively (k polls
\* taking less than the timeout) it returns normally, after exactly k + 1
\* fetches of the Machine Record and without a further one.
C5_ReturnsAtFirstMatch ==
    [][ /\ pc' = "_wait_for_status" => mismatches' = polls'
        /\ (pc = "_wait_for_status" /\ polls * 10 < ConfiguredTimeout) =>
              /\ calls'["machines"] = calls["machines"] + 1
              /\ polls' = polls + 1
              /\ (OneRecord(resp') /\ Lower(resp'.json[1].status_name) = Lower(status)) =>
                    /\ Done("_wait_for_status")'
                    /\ ~result'.raised
        /\ (Done("_wait_for_status")' /\ ~result'.raised) =>
              /\ OneRecord(resp')
              /\ Lower(resp'.json[1].status_name) = Lower(status')
              /\ polls' = mismatches' + 1
              /\ mismatches' * 10 < ConfiguredTimeout
              /\ calls'["machines"] = polls'
      ]_vars

\* C5 witness: a wait has returned at its third poll, after two that did not match
C5_Witness ==
    /\ Done("_wait_for_status")
    /\ ~result.raised
    /\ mismatches = 2
    /\ polls = 3

\* C6: a wait never makes more than ceil(timeout / 10) polls; it returns
\* normally only at a poll that matched; once ceil(timeout / 10) polls have
\* not matched it polls no more and raises the status-timeout error naming
\* the target status, the hostname and the system id.
C6_TimesOut ==
    [][ /\ polls' <= PollLimit
        /\ (Done("_wait_for_status")' /\ ~result'.raised) => mismatches' < polls'
        /\ (pc = "_wait_for_status" /\ polls = PollLimit) =>
              /\ Done("_wait_for_status")'
              /\ result'.raised
              /\ result'.exc.msg = "Failed to validate status %s for host %s, system_id: %s"
              /\ result'.exc.args = << status, shortname, system_id >>
              /\ calls' = calls
              /\ polls' = polls
        /\ (Done("_wait_for_status")' /\ mismatches' = polls') =>
              /\ polls' = PollLimit
              /\ result'.raised
              /\ result'.exc.msg = "Failed to validate status %s for host %s, system_id: %s"
      ]_vars

\* C6 witness: under the default timeout a wait has given up after 90 polls
C6_Witness ==
    /\ Done("_wait_for_status")
    /\ K_timeout \notin DOMAIN maas_conf
    /\ result.raised
    /\ result.exc.msg = "Failed to validate status %s for host %s, system_id: %s"
    /\ polls = 90

\* the boot-resource list has the requested image, and it is synced
RequestedImageSynced(json) ==
    /\ \E i \in DOMAIN json : json[i].name = RequestedName
    /\ \A i \in DOMAIN json : json[i].name = RequestedName => Lower(json[i].type) = S_synced

\* C7: in create(), from a Ready and unlocked record, a requested image that
\* exists and is synced leads to op-deploy, and a "Deploying" answer to it
\* leads to the wait for "Deployed"; op-deploy and op-lock are issued at most
\* once, and exactly once in a run that succeeds; op-lock only right after a
\* poll that observed "Deployed"; OS verification only after op-lock answered
\* locked; no op-abort unless the handler ran.
C7_HappyPath ==
    [][ RunOf("create") =>
        /\ (pc = "deploy_host" /\ OneRecord(resp) /\ resp.json[1].locked = B_False /\
            resp'.url = "boot-resources" /\ resp'.ok /\ RequestedImageSynced(resp'.json)) =>
              pc' = "op_deploy"
        /\ (pc = "op_deploy" /\ resp'.ok /\ resp'.json # <<>> /\
            resp'.json[1].status_name = S_Deploying) =>
              pc' = "_wait_for_status" /\ status' = S_Deployed
        /\ calls'["op-deploy"] <= 1
        /\ calls'["op-lock"] <= 1
        /\ (calls'["op-lock"] # calls["op-lock"]) =>
              /\ OneRecord(resp)
              /\ Lower(resp.json[1].status_name) = S_deployed
        /\ (calls'["remote.os"] # calls["remote.os"]) =>
              /\ resp.url = "op-lock"
              /\ resp.ok
              /\ resp.json # <<>>
              /\ resp.json[1].locked = B_True
        /\ pending' = NoError => calls'["op-abort"] = 0
        /\ (Done("create")' /\ ~result'.raised) =>
              /\ calls'["op-deploy"] = 1
              /\ calls'["op-lock"] = 1
              /\ calls'["op-abort"] = 0
      ]_vars

\* C8: in release(), op-unlock is issued exactly when the fetched record is
\* locked, and op-release only after it (once unlock_host() returned) or after
\* the fetch of an unlocked record; op-release carries erase = true; the wait
\* for "Ready" starts only on an op-release answer whose status is "disk
\* erasing" case-insensitively, and release() succeeds when a poll sees Ready.
C8_ReleaseOrder ==
    [][ RunOf("release") =>
        /\ (pc = "release" /\ OneRecord(resp')) =>
              pc' = IF resp'.json[1].locked = B_True THEN "unlock_host" ELSE "release_host"
        /\ (calls'["op-unlock"] # calls["op-unlock"]) =>
              /\ calls["op-unlock"] = 0
              /\ calls["op-release"] = 0
              /\ OneRecord(resp)
              /\ resp.json[1].locked = B_True
        /\ (calls'["op-release"] # calls["op-release"]) =>
              /\ calls["op-release"] = 0
              /\ req'.url = "op-release"
              /\ req'.data.erase = TRUE
              /\ \/ /\ OneRecord(resp)
                    /\ resp.json[1].locked # B_True
                    /\ calls["op-unlock"] = 0
                 \/ /\ resp.url = "op-unlock"
                    /\ resp.ok
                    /\ resp.json # <<>>
                    /\ resp.json[1].locked # B_True
                    /\ calls["op-unlock"] = 1
        /\ (pc # "_wait_for_status" /\ pc' = "_wait_for_status") =>
              /\ resp'.url = "op-release"
              /\ resp'.ok
              /\ resp'.json # <<>>
              /\ Lower(resp'.json[1].status_name) = S_diskerasing
              /\ status' = S_Ready
        /\ (pc = "_wait_for_status" => calls'["machines"] >= calls["machines"])
        /\ (pc # "_wait_for_status" /\ pc # "release") => calls'["machines"] = calls["machines"]
        /\ (pc = "_wait_for_status" /\ OneRecord(resp') /\
            calls'["machines"] # calls["machines"] /\
            Lower(resp'.json[1].status_name) = S_ready) =>
              Done("release")' /\ ~result'.raised
      ]_vars

\* C8 witness: release() of a locked machine has unlocked, released and seen Ready
C8_Witness ==
    /\ Done("release")
    /\ ~result.raised
    /\ calls["op-unlock"] = 1
    /\ calls["op-release"] = 1
    /\ OneRecord(resp)
    /\ resp.json[1].status_name = S_READY

\* C9: lock_host() returns normally only on an answer with locked = true,
\* unlock_host() only on an answer with locked = false.
C9_LockedFieldChecked ==
    /\ (Done("lock_host") /\ ~result.raised) =>
          resp.ok /\ resp.json # <<>> /\ resp.json[1].locked = B_True
    /\ (Done("unlock_host") /\ ~result.raised) =>
          resp.ok /\ resp.json # <<>> /\ resp.json[1].locked = B_False

\* the requests that change the machine
Lifecycle == { "op-lock", "op-unlock", "op-deploy", "op-release", "op-abort" }

\* C10: once the machine lookup has answered, construction succeeds and
\* stores the record's system_id exactly when the answer lists one record;
\* it raises not-found for none and ambiguous-match for more than one; after
\* a failed construction there is no instance: system_id stays unset and no
\* lifecycle request is ever issued.
C10_Construction ==
    /\ (op = "__init__" /\ resp.url = "machines" /\ resp.ok) =>
          /\ Len(resp.json) = 1 =>
                /\ pc = "idle"
                /\ ~result.raised
                /\ system_id = resp.json[1].system_id
          /\ Len(resp.json) = 0 =>
                /\ pc = "failed"
                /\ result.raised
                /\ result.exc.msg = "Host %s not found!"
                /\ result.exc.args = << shortname >>
          /\ Len(resp.json) > 1 =>
                /\ pc = "failed"
                /\ result.raised
                /\ result.exc.msg = "More than one host found for %s"
                /\ result.exc.args = << shortname >>
    /\ pc = "failed" =>
          /\ op = "__init__"
          /\ result.raised
          /\ system_id = None
          /\ \A u \in Lifecycle : calls[u] = 0
    /\ pc \notin {"new", "failed"} => system_id \in SystemIds

\* C10 witness: construction has failed on a lookup that listed two records
C10_Witness ==
    /\ pc = "failed"
    /\ resp.url = "machines"
    /\ resp.ok
    /\ Len(resp.json) = 2


\* endpoint, api_key and machine_types are all set, the api_key well-formed
Configured ==
    /\ \A k \in {K_endpoint, K_api_key, K_machine_types} :
          k \in DOMAIN maas_conf /\ maas_conf[k] # <<>>
    /\ Len(Split(maas_conf[K_api_key], ":")) = 3

\* C11: enabled() returns True exactly when endpoint, api_key and
\* machine_types are all set, and False without raising otherwise;
\* construction with a setting missing fails with the configuration error
\* before a request is sent; get_types() returns [] when MAAS is not configured.
C11_ConfigurationGate ==
    /\ op # "none" =>
          /\ ~enabled(maas_conf).raised
          /\ enabled(maas_conf).value = Configured
    /\ (op = "__init__" /\ ~Configured) =>
          /\ pc = "failed"
          /\ result.raised
          /\ result.exc = Error("RuntimeError", "MAAS is not configured!", <<>>)
          /\ calls = NoCalls
    /\ (op = "get_types" /\ ~Configured) => result = Return(<<>>)


\* C12: when the Machine Record create() fetches first has a status other
\* than "Ready" (case-insensitively), create() ends there with the not-ready
\* error: that fetch is the only request of the run and no wait is started.
C12_NotReadyStops ==
    [][ (RunOf("create") /\ pc = "create" /\ OneRecord(resp') /\
         Lower(resp'.json[1].status_name) # S_ready) =>
            /\ Done("create")'
            /\ result'.raised
            /\ result'.exc.msg = "MaaS host %s is not ready, current status: %s"
            /\ result'.exc.args = << shortname, resp'.json[1].status_name >>
            /\ calls' = [NoCalls EXCEPT !["machines"] = 1]
            /\ waits' = <<>>
            /\ polls' = 0
      ]_vars

\* C12 witness: create() has refused a machine whose record says "Deploying"
C12_Witness ==
    /\ Done("create")
    /\ OneRecord(resp)
    /\ resp.json[1].status_name = S_Deploying
    /\ result.raised
    /\ result.exc.msg = "MaaS host %s is not ready, current status: %s"
    /\ calls = [NoCalls EXCEPT !["machines"] = 1]


\* this run has started a wait for "Ready"
WaitedForReady == \E i \in DOMAIN waits : waits[i] = S_Ready

\* C13: in create(), op-abort and the wait for "Ready" happen only after a
\* failure of the deploy call or of the wait for "Deployed", hence only after
\* op-deploy was issued: a failure of image resolution or of the synced check
\* issues no op-abort and starts no wait for "Ready"; and a run that failed in
\* the deploy call or in the wait for "Deployed" has issued op-abort, and has
\* started the wait for "Ready" once op-abort returned.
C13_RollbackOnlyAfterDeploy ==
    op = "create" =>
        /\ calls["op-abort"] > 0 => calls["op-deploy"] > 0
        /\ WaitedForReady => calls["op-deploy"] > 0
        /\ (Done("create") /\ pending # NoError /\ calls["op-deploy"] > 0) =>
              /\ calls["op-abort"] = 1
              /\ (resp.url # "op-abort" => WaitedForReady)


\* the messages of the two deploy-failure errors of deploy_host()
DeployFailureMsgs ==
    { "Failed to deploy host %s, system_id: %s", "Host %s deployment failed, status: %s" }

\* this run of create() caught a deploy-failure error from deploy_host()
DeployFailed == op = "create" /\ pending.msg \in DeployFailureMsgs

\* C14: deploy_host() returns normally only on an op-deploy answer whose
\* status_name is "Deploying"; an empty answer or another status raises the
\* deploy-failure error; in create() that failure is followed by no poll for
\* "Deployed" and no op-lock: the run issues op-abort and then waits for "Ready".
C14_DeployFailureRollsBack ==
    [][ /\ (Done("deploy_host")' /\ ~result'.raised) =>
              /\ resp'.url = "op-deploy"
              /\ resp'.ok
              /\ resp'.json # <<>>
              /\ resp'.json[1].status_name = S_Deploying
        /\ (pc = "op_deploy" /\ runs' = runs /\ resp'.ok /\
            (resp'.json = <<>> \/ resp'.json[1].status_name # S_Deploying)) =>
              /\ DeployError'.type = "RuntimeError"
              /\ DeployError'.msg \in DeployFailureMsgs
              /\ op = "deploy_host" => Done("deploy_host")' /\ result'.raised
              /\ op = "create" => pc' = "abort_deploy"
        /\ DeployFailed' =>
              /\ \A i \in DOMAIN waits' : waits'[i] # S_Deployed
              /\ calls'["op-lock"] = 0
              /\ pc' \in {"abort_deploy", "_wait_for_status", "idle"}
              /\ Done("create")' =>
                    /\ calls'["op-abort"] = 1
                    /\ waits' = << S_Ready >>
      ]_vars


\* C15: within one run of create() or release() every request other than the
\* Machine Record fetch is issued at most once; the Machine Record fetch is
\* repeated only by the polling loop, and a poll issues no lifecycle request:
\* one that did not match leads only to the next poll or to the timeout.
C15_SingleAttempt ==
    [][ (runs' = runs /\ op \in {"create", "release"}) =>
        /\ \A u \in Urls \ {"machines"} : calls'[u] <= 1
        /\ (calls'["machines"] # calls["machines"] /\ calls["machines"] >= 1) =>
              /\ pc = "_wait_for_status"
              /\ polls' = polls + 1
        /\ pc = "_wait_for_status" =>
              /\ \A u \in Urls \ {"machines"} : calls'[u] = calls[u]
              /\ (OneRecord(resp') /\ calls'["machines"] # calls["machines"] /\
                  Lower(resp'.json[1].status_name) # Lower(status)) =>
                    pc' = "_wait_for_status"
      ]_vars

\* C15 witness: a run of create() has polled twice for "Deployed", rolled
\* back and polled for "Ready", with one op-deploy and one op-abort
C15_Witness ==
    /\ Done("create")
    /\ waits = << S_Deployed, S_Ready >>
    /\ calls["machines"] >= 4
    /\ calls["op-deploy"] = 1
    /\ calls["op-abort"] = 1
    /\ calls["op-lock"] = 0


\* the messages of the two release-failure errors of release_host()
ReleaseFailureMsgs ==
    { "Failed to release host %s, system_id: %s", "Host %s releasing failed, status: %s" }

\* the answer is a record that says the machine is erasing its disks
DiskErasing(response) ==
    /\ response.ok
    /\ response.json # <<>>
    /\ Lower(response.json[1].status_name) = S_diskerasing

\* C16: in release(), a failed unlock_host() ends the run with its error and
\* no op-release; an op-release answer that is empty or carries a status other
\* than "disk erasing" (case-insensitively) ends the run with the
\* release-failure error, and no failed op-release is followed by a poll for
\* "Ready"; release() never issues op-abort or op-deploy.
C16_ReleaseFailsFast ==
    [][ RunOf("release") =>
        /\ (pc = "unlock_host" /\
            (~resp'.ok \/ resp'.json = <<>> \/ resp'.json[1].locked = B_True)) =>
              /\ Done("release")'
              /\ result'.raised
              /\ calls'["op-release"] = 0
        /\ (pc = "unlock_host" /\ pc' # "release_host") =>
              /\ Done("release")'
              /\ result'.raised
              /\ calls'["op-release"] = 0
        /\ (pc = "release_host" /\ resp'.ok /\
            (resp'.json = <<>> \/
             (resp'.json[1].status_name # None /\
              Lower(resp'.json[1].status_name) # S_diskerasing))) =>
              /\ result'.raised
              /\ result'.exc.type = "RuntimeError"
              /\ result'.exc.msg \in ReleaseFailureMsgs
        /\ (pc = "release_host" /\ ~DiskErasing(resp')) =>
              /\ Done("release")'
              /\ result'.raised
              /\ waits' = <<>>
              /\ calls'["machines"] = 1
        /\ calls'["op-abort"] = 0
        /\ calls'["op-deploy"] = 0
        /\ calls'["op-lock"] = 0
      ]_vars

\* C16 witness: release() has unlocked the machine and then failed on an
\* op-release answer with status "Failed", without polling
C16_Witness ==
    /\ Done("release")
    /\ calls["op-unlock"] = 1
    /\ resp.url = "op-release"
    /\ resp.ok
    /\ resp.json # <<>>
    /\ resp.json[1].status_name = S_Failed
    /\ result.raised
    /\ result.exc.msg = "Host %s releasing failed, status: %s"
    /\ waits = <<>>


\* the fields of instance i, whichever of the two is running
Controller(i) == IF active = i THEN Fields ELSE parked

\* C17: with two instances for two different machines, in every interleaving
\* of their steps a step changes the fields of the instance that takes it
\* only, every lifecycle request of an instance names that instance's own
\* system_id and never the other's, and every step an instance takes among
\* the other's steps is a step it takes when run alone on the same answer.
C17_Independent ==
    [][ /\ \A i \in {1, 2} :
              Controller(i)' # Controller(i) => (active = i /\ active' = i)
        /\ active' = active =>
              /\ parked' = parked
              /\ maas_conf' = maas_conf
              /\ Next
        /\ (active' = active /\ \E u \in Lifecycle : calls'[u] = calls[u] + 1) =>
              /\ req'.target = system_id
              /\ req'.target = Controller(active).system_id
              /\ req'.target # Controller(3 - active).system_id
      ]_vars

\* C17 witness: one instance is about to issue op-deploy in its create()
\* while the other is polling inside its release()
C17_Witness ==
    /\ parked # NoController
    /\ op = "create"
    /\ pc = "op_deploy"
    /\ parked.op = "release"
    /\ parked.pc = "_wait_for_status"
    /\ parked.calls["op-release"] = 1
    /\ system_id # parked.system_id


\* C18: system_id is assigned by construction only, from the one record the
\* lookup listed; no later step changes it, whatever records the service
\* returns, and every lifecycle request names it.
C18_SystemIdFixed ==
    [][ /\ system_id' # system_id =>
              /\ pc = "new"
              /\ op' = "__init__"
              /\ system_id = None
              /\ OneRecord(resp')
              /\ system_id' = resp'.json[1].system_id
        /\ pc \notin {"new", "failed"} => system_id' = system_id /\ system_id \in SystemIds
        /\ \A u \in Lifecycle : calls'[u] = calls[u] + 1 =>
              /\ req'.url = u
              /\ req'.target = system_id
              /\ req'.target = system_id'
      ]_vars

\* C18 witness: after a poll, op-lock has gone to the instance's system_id
\* and was answered with the record of another machine
C18_Witness ==
    /\ op = "create"
    /\ polls >= 1
    /\ req.url = "op-lock"
    /\ req.target = system_id
    /\ resp.ok
    /\ resp.json # <<>>
    /\ resp.json[1].system_id # system_id


\* a run of create() or release() is under way
Running == op \in {"create", "release"} /\ pc # "idle"

\* C19: every run of create() and of release() ends, whatever the service
\* answers, as long as its calls return: create() makes at most the wait for
\* "Deployed" and after it the wait for "Ready", release() at most the wait
\* for "Ready", each wait at most ceil(timeout / 10) polls, and nothing else
\* in a run repeats.
C19_Terminates ==
    /\ [](op = "create" => waits \in { <<>>, << S_Deployed >>, << S_Ready >>,
                                        << S_Deployed, S_Ready >> })
    /\ [](op = "release" => waits \in { <<>>, << S_Ready >> })
    /\ [](op \in {"create", "release"} =>
            /\ polls <= PollLimit
            /\ calls["machines"] <= 1 + Len(waits) * PollLimit
            /\ \A u \in Urls \ {"machines"} : calls[u] <= 1)
    /\ (Running ~> ~Running)

\* C19 witness: create() has ended after both of its waits ran out
C19_Witness ==
    /\ Done("create")
    /\ waits = << S_Deployed, S_Ready >>
    /\ polls = PollLimit
    /\ calls["machines"] = 1 + 2 * PollLimit
    /\ result.raised
    /\ result.exc.msg = "Failed to validate status %s for host %s, system_id: %s"


\* the answer says the machine is locked
Locked(response) ==
    /\ response.url = "op-lock"
    /\ response.ok
    /\ response.json # <<>>
    /\ response.json[1].locked = B_True

\* C20: in create(), lock_host() runs only once a poll has seen "Deployed";
\* when it fails, or when the OS verification after it finds a mismatch,
\* create() ends with that error, the handler does not run, and the run has
\* issued no op-abort, op-unlock or op-release; the verification runs only
\* after op-lock answered locked, so a mismatch leaves the machine locked.
C20_NoRollbackAfterDeployed ==
    [][ RunOf("create") =>
        /\ calls'["op-lock"] > 0 =>
              /\ calls'["op-abort"] = 0
              /\ calls'["op-unlock"] = 0
              /\ calls'["op-release"] = 0
              /\ pending' = NoError
        /\ pc = "lock_host" =>
              /\ OneRecord(resp)
              /\ Lower(resp.json[1].status_name) = S_deployed
              /\ calls'["op-lock"] = 1
              /\ IF Locked(resp')
                 THEN pc' = "_verify_installed_os"
                 ELSE /\ Done("create")'
                      /\ result'.raised
                      /\ result'.exc =
                            IF ~resp'.ok THEN HTTPError("op-lock")
                            ELSE IF resp'.json = <<>>
                            THEN Error("RuntimeError", "Failed to lock host %s, system_id: %s",
                                       << shortname, system_id >>)
                            ELSE Error("RuntimeError", "Host %s locking failed, status: %s",
                                       << shortname, resp'.json[1].locked >>)
        /\ pc = "_verify_installed_os" =>
              /\ Locked(resp)
              /\ Done("create")'
              /\ \A u \in Lifecycle : calls'[u] = calls[u]
              /\ result'.raised =>
                    result'.exc.msg = "Expected %s's OS to be %s but found %s"
      ]_vars

\* C20 witness: create() has ended with the OS mismatch error, the machine
\* locked and nothing undone
C20_Witness ==
    /\ Done("create")
    /\ result.raised
    /\ result.exc.msg = "Expected %s's OS to be %s but found %s"
    /\ Locked(resp)
    /\ calls["op-lock"] = 1
    /\ calls["op-abort"] = 0
    /\ waits = << S_Deployed >>

====
